---- MODULE Spec2Model ----
(***************************************************************************)
(* A model of the ClipyCutter clip selection and rendering pipeline:       *)
(*   - WindowGenerator.generate_windows   (app/services/windows.py)        *)
(*   - HybridRanker.rank_windows          (app/services/rank_text.py)      *)
(*   - ClipBatch.render_top_clips         (app/services/cut_render.py)     *)
(*   - ClipyCutterPipeline._generate_report (cli.py)                       *)
(*                                                                         *)
(* Times are whole seconds.  Scores are fixed point: a sub-score is kept   *)
(* in hundredths (100 = 1.0) and a final score in ten-thousandths          *)
(* (10000 = 1.0), so that the weighted sum of the ranker is exact.         *)
(***************************************************************************)
EXTENDS Integers, Sequences, FiniteSets, TLC

\* ------------------------------------------------------------------------
\* Program constants
\* ------------------------------------------------------------------------
window_duration == 90
stride == 15
snap_threshold == 5

\* ------------------------------------------------------------------------
\* Bounds of the model
\* ------------------------------------------------------------------------
MaxDuration == 120
MaxCuts == 2
MaxSentences == 1

\* no request was made to the chat back-end
NoReply ==
    [kind |-> "none", cogency |-> [type |-> "missing", val |-> 0],
     quotes |-> [type |-> "missing", val |-> 0],
     salient_terms |-> [type |-> "missing", val |-> 0]]

\* the default argument transcription=None of generate_windows
NoTranscription == [present |-> FALSE, sentences |-> << >>]

VARIABLES
    \* --- WindowGenerator.generate_windows ---
    wg_pc,            \* position inside generate_windows
    video_duration,   \* argument video_duration
    video_cuts,       \* the cuts PySceneDetect finds in the file (set of times)
    transcription,    \* argument transcription: NoTranscription or a dict with sentences
    scene_cuts,       \* local scene_cuts (list of timestamps)
    current_start,    \* local current_start
    window_id,        \* local window_id
    windows,          \* local windows / the returned list
    \* --- HybridRanker.rank_windows ---
    rk_pc,            \* position inside rank_windows
    rank_input,       \* argument windows
    top_k,            \* argument top_k
    is_fitted,        \* density_calculator.is_fitted
    tfidf_fits,       \* number of times TfidfVectorizer.fit was run
    score_i,          \* index of the window the scoring loop is at
    scored_windows,   \* local scored_windows: list of (window, scores)
    grader_calls,     \* number of requests posted to the chat back-end
    grader_in_flight, \* requests posted to the chat back-end and not yet answered
    last_reply,       \* what the back-end did with the latest scoring's request
    ranked,           \* the list rank_windows returns
    \* --- ClipBatch.render_top_clips and the report ---
    rn_pc,            \* position inside render_top_clips / _generate_report
    render_i,         \* position in ranked_windows the render loop is at
    rendered_clips,   \* local rendered_clips
    render_log,       \* outcome of the render of each position, in order
    captions_written, \* the caption lists handed to add_captions_to_video
    files,            \* files in the output directory
    ffmpeg_in_flight, \* ffmpeg subprocesses of the renderer that are running
    report,           \* the report process_video returns
    \* ---- process_video and main (cli.py) ----
    pl_pc,            \* where process_video / main is
    pl_error,         \* the stage whose exception left process_video
    csv_log,          \* the CSV log _save_csv_log wrote
    exit_status,      \* exit status of the CLI once pl_pc = "exited"
    \* ---- the web API (main.py) and VideoProcessor (video_processor.py) ----
    clips_storage,    \* clip id -> record (exists = FALSE: no such key)
    cs_queue,         \* background tasks added and not yet started
    cs_running,       \* the background task the event loop is executing
    cs_writers,       \* clip id -> the functions that wrote to its record
    cs_updates,       \* number of update-captions requests served
    cs_regen,         \* clip id -> the runs of regenerate_with_captions so far
    \* ---- VLLMWhisperClient.align_to_sentences (asr_vllm.py) ----
    al_pc,            \* position inside align_to_sentences
    al_words,         \* transcription['words']
    al_i,             \* index of the word the loop is at
    al_sentences,     \* sentences
    al_current        \* current_sentence

wg_vars == <<wg_pc, video_duration, video_cuts, transcription, scene_cuts,
             current_start, window_id, windows>>

rk_vars == <<rk_pc, rank_input, top_k, is_fitted, tfidf_fits, score_i,
             scored_windows, grader_calls, grader_in_flight, last_reply, ranked>>

rn_vars == <<rn_pc, render_i, rendered_clips, render_log, captions_written,
             files, ffmpeg_in_flight, report>>

pl_vars == <<pl_pc, pl_error, csv_log, exit_status>>

cs_vars == <<clips_storage, cs_queue, cs_running, cs_writers, cs_updates,
            cs_regen>>

al_vars == <<al_pc, al_words, al_i, al_sentences, al_current>>

vars == <<wg_vars, rk_vars, rn_vars, pl_vars, cs_vars, al_vars>>

\* ------------------------------------------------------------------------
\* Helpers
\* ------------------------------------------------------------------------
Abs(x) == IF x < 0 THEN -x ELSE x
Min(a, b) == IF a < b THEN a ELSE b
Max(a, b) == IF a > b THEN a ELSE b

Range(s) == {s[i] : i \in DOMAIN s}

SetMin(S) == CHOOSE x \in S : \A y \in S : x <= y

RECURSIVE SortedSeq(_)
\* the elements of a finite set of numbers as a strictly increasing list
SortedSeq(S) ==
    IF S = {} THEN << >>
    ELSE LET m == SetMin(S) IN << m >> \o SortedSeq(S \ {m})

\* times the inputs are drawn from: multiples of the snap threshold
TimeGrid == {t \in 0..MaxDuration : t % snap_threshold = 0}

\* ------------------------------------------------------------------------
\* SceneDetector (windows.py)
\* ------------------------------------------------------------------------
RECURSIVE ScenesFrom(_, _, _)
\* detect_scenes: the (start, end) pairs of the scenes delimited by cuts
ScenesFrom(prev, cuts, dur) ==
    IF cuts = << >> THEN << <<prev, dur>> >>
    ELSE << <<prev, Head(cuts)>> >> \o ScenesFrom(Head(cuts), Tail(cuts), dur)

detect_scenes(cutset, dur) == ScenesFrom(0, SortedSeq(cutset), dur)

\* get_scene_cuts: the start of every scene but the first
get_scene_cuts(scenes) ==
    [i \in 1..(Len(scenes) - 1) |-> scenes[i + 1][1]]

\* ------------------------------------------------------------------------
\* WindowGenerator (windows.py)
\* ------------------------------------------------------------------------
RECURSIVE FirstWithin_Wide(_, _, _)
\* FirstWithin with twice the snap threshold
FirstWithin_Wide(cuts, t, dflt) ==
    IF cuts = << >> THEN dflt
    ELSE IF Abs(Head(cuts) - t) <= 2 * snap_threshold THEN Head(cuts)
    ELSE FirstWithin_Wide(Tail(cuts), t, dflt)

RECURSIVE FirstWithin_Triple(_, _, _)
\* FirstWithin with three times the snap threshold
FirstWithin_Triple(cuts, t, dflt) ==
    IF cuts = << >> THEN dflt
    ELSE IF Abs(Head(cuts) - t) <= 3 * snap_threshold THEN Head(cuts)
    ELSE FirstWithin_Triple(Tail(cuts), t, dflt)

RECURSIVE FirstWithin(_, _, _)
\* the loop "for cut in scene_cuts: if abs(cut - t) <= thr: ...; break":
\* the first cut of the list within thr of t, or dflt when there is none
FirstWithin(cuts, t, dflt) ==
    IF cuts = << >> THEN dflt
    ELSE IF Abs(Head(cuts) - t) <= snap_threshold THEN Head(cuts)
    ELSE FirstWithin(Tail(cuts), t, dflt)

\* _snap_to_scene_boundaries without lines 226-229 (the minimum duration)
_snap_to_scene_boundaries_NoSafeguard(start, end, cuts) ==
    << FirstWithin(cuts, start, start), FirstWithin(cuts, end, end) >>

\* _snap_to_scene_boundaries(start, end, scene_cuts) -> <<start, end>>
\* the test  end - start < window_duration * 0.8  is  5*(end-start) < 4*window_duration
_snap_to_scene_boundaries(start, end, cuts) ==
    LET snapped_start == FirstWithin(cuts, start, start)
        snapped_end   == FirstWithin(cuts, end, end)
        final_end     == IF 5 * (snapped_end - snapped_start) < 4 * window_duration
                         THEN snapped_start + window_duration
                         ELSE snapped_end
    IN  << snapped_start, final_end >>

RECURSIVE FilterSeq(_, _, _)
\* [x for x in s if lo <= x <= hi]
FilterSeq(s, lo, hi) ==
    IF s = << >> THEN << >>
    ELSE IF lo <= Head(s) /\ Head(s) <= hi
         THEN << Head(s) >> \o FilterSeq(Tail(s), lo, hi)
         ELSE FilterSeq(Tail(s), lo, hi)

\* SegmentIncluded with "at least half" in place of "more than half"
SegmentIncluded_AtLeastHalf(sentence, start_time, end_time) ==
    /\ sentence.start < end_time
    /\ sentence.end > start_time
    /\ LET overlap_start == Max(sentence.start, start_time)
           overlap_end   == Min(sentence.end, end_time)
       IN  2 * (overlap_end - overlap_start) >= sentence.end - sentence.start

\* the body of the loop of _get_transcript_segments for one sentence:
\* TRUE when the sentence is appended to segments
SegmentIncluded(sentence, start_time, end_time) ==
    /\ sentence.start < end_time
    /\ sentence.end > start_time
    /\ LET overlap_start == Max(sentence.start, start_time)
           overlap_end   == Min(sentence.end, end_time)
       IN  2 * (overlap_end - overlap_start) > sentence.end - sentence.start

MakeSegment(sentence, start_time, end_time) ==
    LET overlap_start == Max(sentence.start, start_time)
        overlap_end   == Min(sentence.end, end_time)
    IN  [text |-> sentence.text, start |-> sentence.start, end |-> sentence.end,
         overlap_start |-> overlap_start, overlap_end |-> overlap_end,
         overlap_duration |-> overlap_end - overlap_start]

RECURSIVE _get_transcript_segments(_, _, _)
\* _get_transcript_segments(sentences, start_time, end_time)
_get_transcript_segments(sentences, start_time, end_time) ==
    IF sentences = << >> THEN << >>
    ELSE LET rest == _get_transcript_segments(Tail(sentences), start_time, end_time)
         IN  IF SegmentIncluded(Head(sentences), start_time, end_time)
             THEN << MakeSegment(Head(sentences), start_time, end_time) >> \o rest
             ELSE rest

\* s[:n]
Take(s, n) == SubSeq(s, 1, Min(n, Len(s)))

\* the VideoWindow built by one iteration of the loop of generate_windows
MakeWindow(t, id, cuts, dur, trans) ==
    LET snapped       == _snap_to_scene_boundaries(t, t + window_duration, cuts)
        snapped_start == snapped[1]
        snapped_end   == Min(snapped[2], dur)
    IN  [start_time |-> snapped_start,
         end_time   |-> snapped_end,
         duration   |-> snapped_end - snapped_start,
         window_id  |-> id,
         scene_cuts |-> FilterSeq(cuts, snapped_start, snapped_end),
         transcript_segments |->
             IF trans.present
             THEN _get_transcript_segments(trans.sentences, snapped_start, snapped_end)
             ELSE << >>]

\* ---- inputs of generate_windows ----
SentenceStarts == {10, 85}
SentenceDurations == {0, 2, 10}
Sentences ==
    {[text |-> "Hello world.", start |-> s, end |-> s + d] :
        s \in SentenceStarts, d \in SentenceDurations}

SeqsUpTo(S, n) == UNION {[1..k -> S] : k \in 0..n}

Transcriptions ==
    {NoTranscription} \cup
    {[present |-> TRUE, sentences |-> ss] : ss \in SeqsUpTo(Sentences, MaxSentences)}

CutSets(dur) ==
    {C \in SUBSET {c \in TimeGrid : 0 < c /\ c < dur} : Cardinality(C) <= MaxCuts}

\* the ranker before rank_windows is called
RKIdle ==
    /\ rk_pc = "idle"
    /\ rank_input = << >>
    /\ top_k = 0
    /\ is_fitted = FALSE
    /\ tfidf_fits = 0
    /\ score_i = 1
    /\ scored_windows = << >>
    /\ grader_calls = 0
    /\ grader_in_flight = 0
    /\ last_reply = NoReply
    /\ ranked = << >>

\* no report was produced
NoReport ==
    [present |-> FALSE, total_windows |-> 0, ranked_windows |-> 0,
     clip_results |-> << >>, clips_generated |-> 0, top_scores |-> << >>]

\* the renderer before render_top_clips is called
RNIdle ==
    /\ rn_pc = "idle"
    /\ render_i = 1
    /\ rendered_clips = << >>
    /\ render_log = << >>
    /\ captions_written = << >>
    /\ files = {}
    /\ ffmpeg_in_flight = 0
    /\ report = NoReport

\* ---- inputs of the web API ----
ClipIds == {"c1", "c2"}
MaxUpdates == 1

\* the value of clips_storage for an id that is not a key of the dict
NoClip ==
    [exists |-> FALSE, status |-> "none", video_path |-> "none",
     captions |-> "none", youtube_upload |-> "none"]

\* a background task, or the upload a handler is busy with: its function
\* (kind), its clip_id, its position, its captions argument, the number of
\* the request that added it, the retry counter of upload_video, and whether
\* the record was in status "completed" when the request was made
Task(kind, clip, pc, captions, seq, from_completed) ==
    [kind |-> kind, clip |-> clip, pc |-> pc, captions |-> captions,
     seq |-> seq, retry |-> 0, from_completed |-> from_completed]

\* no background task
NoTask == Task("none", "none", "none", "none", 0, FALSE)

\* the web API right after start-up: clips_storage = {}
CSIdle ==
    /\ clips_storage = [c \in ClipIds |-> NoClip]
    /\ cs_queue = {}
    /\ cs_running = NoTask
    /\ cs_writers = [c \in ClipIds |-> {}]
    /\ cs_updates = 0
    /\ cs_regen = [c \in ClipIds |-> << >>]

\* a fresh current_sentence; start = -1 and end = -1 stand for None
NewSentence == [text |-> << >>, start |-> -1, end |-> -1, words |-> << >>]

\* align_to_sentences is not running
ALIdle ==
    /\ al_pc = "idle"
    /\ al_words = << >>
    /\ al_i = 1
    /\ al_sentences = << >>
    /\ al_current = NewSentence

\* no CSV log was written
NoCsvLog == [present |-> FALSE, rows |-> << >>]

\* process_video is not running
PLIdle ==
    /\ pl_pc = "idle"
    /\ pl_error = "none"
    /\ csv_log = NoCsvLog
    /\ exit_status = 0

\* the window generator before generate_windows is called
WGIdle ==
    /\ wg_pc = "idle"
    /\ video_duration = 0
    /\ video_cuts = {}
    /\ transcription = NoTranscription
    /\ scene_cuts = << >>
    /\ current_start = 0
    /\ window_id = 0
    /\ windows = << >>

WGInit ==
    /\ RKIdle
    /\ RNIdle
    /\ PLIdle
    /\ CSIdle
    /\ ALIdle
    /\ wg_pc = "detect"
    /\ video_duration \in TimeGrid
    /\ video_cuts \in CutSets(video_duration)
    /\ transcription \in Transcriptions
    /\ scene_cuts = << >>
    /\ current_start = 0
    /\ window_id = 0
    /\ windows = << >>

\* generate_windows, line 140: scene detection succeeds
DetectScenes ==
    /\ wg_pc = "detect"
    /\ scene_cuts' = get_scene_cuts(detect_scenes(video_cuts, video_duration))
    /\ wg_pc' = "loop"
    /\ UNCHANGED <<video_duration, video_cuts, transcription, current_start,
                   window_id, windows>>
    /\ UNCHANGED <<rk_vars, rn_vars, pl_vars, cs_vars, al_vars>>

\* DetectScenesFailed when detect_scenes lets the exception through: the
\* handler of generate_windows (lines 184-186) returns []
DetectScenesFailed_Raises ==
    /\ wg_pc = "detect"
    /\ wg_pc' = "returned"
    /\ UNCHANGED <<video_duration, video_cuts, transcription, scene_cuts,
                   current_start, window_id, windows>>
    /\ UNCHANGED <<rk_vars, rn_vars, pl_vars, cs_vars, al_vars>>

\* generate_windows, line 140: detect_scenes catches an exception and returns []
DetectScenesFailed ==
    /\ wg_pc = "detect"
    /\ scene_cuts' = get_scene_cuts(<< >>)
    /\ wg_pc' = "loop"
    /\ UNCHANGED <<video_duration, video_cuts, transcription, current_start,
                   window_id, windows>>
    /\ UNCHANGED <<rk_vars, rn_vars, pl_vars, cs_vars, al_vars>>

\* one iteration of the while loop of generate_windows
GenerateWindow ==
    /\ wg_pc = "loop"
    /\ current_start < video_duration - window_duration
    /\ windows' = Append(windows,
           MakeWindow(current_start, window_id, scene_cuts, video_duration,
                      transcription))
    /\ current_start' = current_start + stride
    /\ window_id' = window_id + 1
    /\ UNCHANGED <<wg_pc, video_duration, video_cuts, transcription, scene_cuts>>
    /\ UNCHANGED <<rk_vars, rn_vars, pl_vars, cs_vars, al_vars>>

\* the loop condition fails: return windows
ReturnWindows ==
    /\ wg_pc = "loop"
    /\ ~(current_start < video_duration - window_duration)
    /\ wg_pc' = "returned"
    /\ UNCHANGED <<video_duration, video_cuts, transcription, scene_cuts,
                   current_start, window_id, windows>>
    /\ UNCHANGED <<rk_vars, rn_vars, pl_vars, cs_vars, al_vars>>

WGNext == DetectScenes \/ DetectScenesFailed \/ GenerateWindow \/ ReturnWindows

SpecWindows == WGInit /\ [][WGNext]_vars

\* ------------------------------------------------------------------------
\* Text helpers (rank_text.py).  A text is the list of its whitespace
\* separated, lower-case words; ' '.join concatenates the lists.
\* ------------------------------------------------------------------------
RECURSIVE SumSeq(_)
SumSeq(s) == IF s = << >> THEN 0 ELSE Head(s) + SumSeq(Tail(s))

RECURSIVE JoinTexts(_)
\* ' '.join(texts), as a word list
JoinTexts(texts) ==
    IF texts = << >> THEN << >> ELSE Head(texts) \o JoinTexts(Tail(texts))

\* HybridRanker._extract_window_text
_extract_window_text(window) ==
    JoinTexts([k \in DOMAIN window.transcript_segments |->
                  window.transcript_segments[k].text])

\* truth value of the string _extract_window_text returns ("if text:"):
\* joining two or more segments always yields at least the separator
TextTruthy(window) ==
    \/ Len(window.transcript_segments) >= 2
    \/ _extract_window_text(window) # << >>

\* number of positions of text holding the word w
CountWord(text, w) == Cardinality({k \in DOMAIN text : text[k] = w})

\* ------------------------------------------------------------------------
\* KeyphraseExtractor.extract_keyphrases(text, "both"): the fused output of
\* the KeyBERT and YAKE libraries, a list of (phrase, importance) sorted by
\* importance, importance in hundredths (YAKE's 1/score may exceed 1.0)
\* ------------------------------------------------------------------------
stopwords ==
    {"the", "a", "an", "and", "or", "but", "in", "on", "at", "to", "for",
     "of", "with", "by", "is", "are", "was", "were", "be", "been", "being",
     "have", "has", "had", "do", "does", "did", "will", "would", "could",
     "should", "may", "might", "can", "this", "that", "these", "those"}

PhraseImportance ==
    [w \in {"ai", "transforms", "work", "data"} |->
        CASE w = "ai" -> 150
          [] w = "transforms" -> 60
          [] w = "work" -> 45
          [] w = "data" -> 30]

RECURSIVE KeyphrasesFrom(_)
KeyphrasesFrom(ws) ==
    IF ws = {} THEN << >>
    ELSE LET w == CHOOSE x \in ws :
                      \A y \in ws : PhraseImportance[x] >= PhraseImportance[y]
         IN  << [phrase |-> w, importance |-> PhraseImportance[w]] >>
                 \o KeyphrasesFrom(ws \ {w})

extract_keyphrases(text) ==
    IF text = << >> THEN << >>
    ELSE KeyphrasesFrom(Range(text) \cap DOMAIN PhraseImportance)

\* HybridRanker._calculate_keyphrase_score, in hundredths
_calculate_keyphrase_score(keyphrases, text) ==
    IF keyphrases = << >> THEN 0
    ELSE LET coverage(k) == Min((100 * CountWord(text, keyphrases[k].phrase)) \div 3, 100)
             total_score == SumSeq([k \in DOMAIN keyphrases |->
                                (keyphrases[k].importance * coverage(k)) \div 100])
         IN  Min(total_score \div Len(keyphrases), 100)

\* ------------------------------------------------------------------------
\* InformationDensityCalculator (rank_text.py), metrics in hundredths
\* ------------------------------------------------------------------------
\* 100 * log2(n), rounded
Log2x100 ==
    [n \in 1..8 |-> CASE n = 1 -> 0   [] n = 2 -> 100 [] n = 3 -> 158
                      [] n = 4 -> 200 [] n = 5 -> 232 [] n = 6 -> 258
                      [] n = 7 -> 281 [] n = 8 -> 300]

\* mean TF-IDF weight sklearn reports for the text under the fitted model
TfidfMean(text) ==
    IF Range(text) \subseteq stopwords THEN 0
    ELSE 100 \div Cardinality(Range(text) \ stopwords)

\* calculate_density(text)
calculate_density(text, fitted) ==
    IF text = << >>
    THEN [lexical_diversity |-> 0, entropy |-> 0, tfidf_mean |-> 0,
          content_word_ratio |-> 0, avg_word_length |-> 0]
    ELSE LET n      == Len(text)
             unique == Range(text)
             \* -sum(p * log2(p)) = log2(n) - sum(c * log2(c)) / n
             clogc  == SumSeq([k \in 1..n |-> Log2x100[CountWord(text, text[k])]])
             content == Cardinality({k \in 1..n : text[k] \notin stopwords})
         IN  [lexical_diversity  |-> (100 * Cardinality(unique)) \div n,
              entropy            |-> Log2x100[n] - (clogc \div n),
              tfidf_mean         |-> IF fitted THEN TfidfMean(text) ELSE 0,
              content_word_ratio |-> (100 * content) \div n,
              avg_word_length    |-> (100 * SumSeq([k \in 1..n |-> Len(text[k])])) \div n]

\* HybridRanker._calculate_density_score, in hundredths
_calculate_density_score(metrics) ==
    LET score == ( 30 * metrics.lexical_diversity
                 + 20 * Min(metrics.entropy \div 5, 100)
                 + 20 * metrics.tfidf_mean
                 + 15 * metrics.content_word_ratio
                 + 15 * Min(metrics.avg_word_length \div 6, 100) ) \div 100
    IN  Min(score, 100)

\* HybridRanker._calculate_filler_penalty, in hundredths
_calculate_filler_penalty(text) ==
    LET single == {"um", "uh", "er", "ah", "like",
                   "basically", "actually", "literally", "obviously"}
        pairs  == {<<"you", "know">>, <<"sort", "of">>, <<"kind", "of">>,
                   <<"i", "mean">>, <<"i", "think">>, <<"i", "guess">>,
                   <<"i", "suppose">>}
        total_fillers ==
            Cardinality({k \in DOMAIN text : text[k] \in single})
            + Cardinality({k \in 1..(Len(text) - 1) : <<text[k], text[k + 1]>> \in pairs})
        word_count == Len(text)
    IN  IF word_count > 0 THEN Min((200 * total_fillers) \div word_count, 100) ELSE 0

\* ------------------------------------------------------------------------
\* VLLMChatClient.grade_text_cogency (rank_text.py)
\* A JSON value is [type, val]: val is the number of an "int", the length
\* of a "list" or "str", and 0 for "null" and for a key that is "missing".
\* ------------------------------------------------------------------------
JInt(n)  == [type |-> "int", val |-> n]
JList(n) == [type |-> "list", val |-> n]
JStr(n)  == [type |-> "str", val |-> n]
JNull    == [type |-> "null", val |-> 0]
JMissing == [type |-> "missing", val |-> 0]

\* what the chat back-end does with one request
Reply(kind, cogency, quotes, salient_terms) ==
    [kind |-> kind, cogency |-> cogency, quotes |-> quotes,
     salient_terms |-> salient_terms]

MaxCogencyReply == 6
MaxQuotes == 2

GraderReplies ==
    \* non-200 status, time-out, content that is not JSON, JSON that is not an object
    {Reply(k, JMissing, JMissing, JMissing) :
        k \in {"http_error", "timeout", "malformed", "not_object"}}
    \cup {Reply("ok", JInt(c), JList(0), JList(2)) : c \in 0..MaxCogencyReply}
    \cup {Reply("ok", JInt(3), q, JList(2)) :
            q \in {JList(n) : n \in 1..MaxQuotes} \cup {JNull, JMissing}}
    \cup {Reply("ok", c, JList(0), JMissing) : c \in {JStr(4), JNull, JMissing}}
    \cup {Reply("ok", JInt(3), JList(0), JNull)}

\* parsed.get(key, default)
DictGet(value, default) == IF value.type = "missing" THEN default ELSE value

\* the dictionary grade_text_cogency returns; it never raises:
\* has_error is the presence of the key 'error', has_raw of 'raw_response'
grade_text_cogency(reply) ==
    IF reply.kind = "ok"
    THEN [cogency       |-> DictGet(reply.cogency, JInt(1)),
          quotes        |-> DictGet(reply.quotes, JList(0)),
          salient_terms |-> DictGet(reply.salient_terms, JList(0)),
          has_raw |-> TRUE, has_error |-> FALSE]
    ELSE IF reply.kind = "malformed"
    THEN [cogency |-> JInt(1), quotes |-> JList(0), salient_terms |-> JList(0),
          has_raw |-> TRUE, has_error |-> FALSE]
    ELSE [cogency |-> JInt(1), quotes |-> JList(0), salient_terms |-> JList(0),
          has_raw |-> FALSE, has_error |-> TRUE]

\* the grading of a window that was never sent to the grader
NoGrading ==
    [cogency |-> JMissing, quotes |-> JMissing, salient_terms |-> JMissing,
     has_raw |-> FALSE, has_error |-> FALSE]

\* ------------------------------------------------------------------------
\* HybridRanker.score_window (rank_text.py)
\* ------------------------------------------------------------------------
\* llm_grading['cogency'] / 5.0 raises TypeError unless cogency is a number
CanDivide(v) == v.type = "int"
\* len(llm_grading['quotes']) raises TypeError for a number or null
HasLen(v) == v.type \in {"list", "str"}

\* the early return of score_window for a window without text
EmptyScores(text) ==
    [final_score |-> 0, keyphrase_score |-> 0, density_score |-> 0,
     cogency_score |-> 0, quote_bonus |-> 0, scene_penalty |-> 0,
     filler_penalty |-> 0,
     components |-> [present |-> FALSE, keyphrases |-> << >>,
                     llm_grading |-> NoGrading, scene_cuts |-> 0,
                     word_count |-> 0],
     text |-> text]

\* cogency_score = llm_grading['cogency'] / 5.0, in hundredths
CogencyScore(llm_grading) == 20 * llm_grading.cogency.val

\* the scores of a window with text, given the grading (no TypeError case)
FullScores(window, text, llm_grading, fitted) ==
    LET keyphrases      == extract_keyphrases(text)
        density_metrics == calculate_density(text, fitted)
        keyphrase_score == _calculate_keyphrase_score(keyphrases, text)
        density_score   == _calculate_density_score(density_metrics)
        cogency_score   == CogencyScore(llm_grading)
        quote_bonus     == 10 * llm_grading.quotes.val
        scene_penalty   == 10 * Len(window.scene_cuts)
        filler_penalty  == _calculate_filler_penalty(text)
        final_score     == 35 * keyphrase_score + 20 * density_score
                           + 25 * cogency_score + 10 * quote_bonus
                           - 5 * scene_penalty - 5 * filler_penalty
    IN  [final_score |-> Max(0, final_score),
         keyphrase_score |-> keyphrase_score,
         density_score |-> density_score,
         cogency_score |-> cogency_score,
         quote_bonus |-> quote_bonus,
         scene_penalty |-> scene_penalty,
         filler_penalty |-> filler_penalty,
         components |-> [present |-> TRUE, keyphrases |-> Take(keyphrases, 10),
                         llm_grading |-> llm_grading,
                         scene_cuts |-> Len(window.scene_cuts),
                         word_count |-> Len(text)],
         text |-> text]

\* score_window that sends the text to the grader before the empty-text test
score_window_GradesEmpty(window, reply, fitted) ==
    LET text == _extract_window_text(window)
        llm_grading == grade_text_cogency(reply)
    IN  IF text = << >>
        THEN [called |-> TRUE, raised |-> FALSE, scores |-> EmptyScores(text)]
        ELSE IF CanDivide(llm_grading.cogency) /\ HasLen(llm_grading.quotes)
             THEN [called |-> TRUE, raised |-> FALSE,
                   scores |-> FullScores(window, text, llm_grading, fitted)]
             ELSE [called |-> TRUE, raised |-> TRUE,
                   scores |-> EmptyScores(text)]

\* score_window(window) when the back-end answers its request with reply:
\* called tells whether a request was made, raised whether a TypeError
\* leaves score_window
score_window(window, reply, fitted) ==
    LET text == _extract_window_text(window)
    IN  IF text = << >>
        THEN [called |-> FALSE, raised |-> FALSE, scores |-> EmptyScores(text)]
        ELSE LET llm_grading == grade_text_cogency(reply)
             IN  IF CanDivide(llm_grading.cogency) /\ HasLen(llm_grading.quotes)
                 THEN [called |-> TRUE, raised |-> FALSE,
                       scores |-> FullScores(window, text, llm_grading, fitted)]
                 ELSE [called |-> TRUE, raised |-> TRUE,
                       scores |-> EmptyScores(text)]

\* ------------------------------------------------------------------------
\* HybridRanker.rank_windows (rank_text.py)
\* ------------------------------------------------------------------------
\* HybridRanker.fit_corpus: the texts handed to TfidfVectorizer.fit
CorpusTexts(ws) ==
    {_extract_window_text(ws[k]) : k \in {j \in DOMAIN ws : TextTruthy(ws[j])}}

\* InformationDensityCalculator.fit_corpus: fit raises ValueError (caught)
\* when the corpus has nothing but stop words, and is_fitted stays False
FitSucceeds(texts) == \E t \in texts : ~(Range(t) \subseteq stopwords)

RECURSIVE InsertDesc(_, _)
\* place x behind every element whose final_score is not smaller
InsertDesc(sorted, x) ==
    IF sorted = << >> THEN << x >>
    ELSE IF Head(sorted).scores.final_score >= x.scores.final_score
         THEN << Head(sorted) >> \o InsertDesc(Tail(sorted), x)
         ELSE << x >> \o sorted

RECURSIVE SortByFinalScore(_)
\* list.sort(key=final_score, reverse=True): descending and stable
SortByFinalScore(s) ==
    IF s = << >> THEN << >>
    ELSE InsertDesc(SortByFinalScore(SubSeq(s, 1, Len(s) - 1)), s[Len(s)])

\* ---- inputs of rank_windows ----
MaxRankWindows == 2
MaxTopK == 2

GoodText == << "ai", "transforms", "work", "ai" >>
FillerText == << "um", "i", "think", "this", "is", "like", "data" >>

Seg(text, start, end) == [text |-> text, start |-> start, end |-> end]

RankWindow(id, start, cuts, segments) ==
    [start_time |-> start, end_time |-> start + window_duration,
     duration |-> window_duration, window_id |-> id, scene_cuts |-> cuts,
     transcript_segments |-> segments]

\* windows as generate_windows makes them: ids follow the starts; window 5
\* has no segment (text ""), window 7 two segments without words (text " ").
\* The segment of window 2 lies inside the window, that of window 3 begins
\* before the window start and that of window 6 ends after the window end;
\* the second segment of window 7 lies behind the window end
\* (render_clip_with_captions accepts any segment list).
RankWindows ==
    { RankWindow(2, 30, << >>, << Seg(GoodText, 40, 45) >>),
      RankWindow(3, 45, << >>, << Seg(GoodText, 42, 50) >>),
      RankWindow(5, 75, << >>, << >>),
      RankWindow(7, 105, << >>, << Seg(<< >>, 110, 112), Seg(<< >>, 200, 205) >>),
      RankWindow(6, 90, << 100, 120 >>, << Seg(FillerText, 170, 188) >>) }

\* lists of distinct windows, in any order
RankInputs ==
    {s \in SeqsUpTo(RankWindows, MaxRankWindows) :
        \A i, j \in DOMAIN s : i # j => s[i] # s[j]}

RKInit ==
    /\ WGIdle
    /\ RNIdle
    /\ PLIdle
    /\ CSIdle
    /\ ALIdle
    /\ rk_pc = "fit"
    /\ rank_input \in RankInputs
    /\ top_k \in 1..MaxTopK
    /\ is_fitted = FALSE
    /\ tfidf_fits = 0
    /\ score_i = 1
    /\ scored_windows = << >>
    /\ grader_calls = 0
    /\ grader_in_flight = 0
    /\ last_reply = NoReply
    /\ ranked = << >>

\* TfidfFitCalls when the vectorizer is fitted once for every text
TfidfFitCalls_PerText(ws) == Cardinality({k \in DOMAIN ws : TextTruthy(ws[k])})

\* HybridRanker.fit_corpus, lines 323-324: "if texts:" guards the one call
\* of density_calculator.fit_corpus, which runs TfidfVectorizer.fit
TfidfFitCalls(ws) == IF CorpusTexts(ws) # {} THEN 1 ELSE 0

\* rank_windows, line 472: self.fit_corpus(windows)
FitCorpus ==
    /\ rk_pc = "fit"
    /\ is_fitted' = (is_fitted \/ FitSucceeds(CorpusTexts(rank_input)))
    /\ tfidf_fits' = tfidf_fits + TfidfFitCalls(rank_input)
    /\ rk_pc' = "score"
    /\ UNCHANGED <<rank_input, top_k, score_i, scored_windows, grader_calls,
                   grader_in_flight, last_reply, ranked>>
    /\ UNCHANGED <<wg_vars, rn_vars, pl_vars, cs_vars, al_vars>>

\* rank_windows, line 477 / score_window, line 365: score_window posts the
\* text of the window to the chat back-end and awaits the answer
PostGradeRequest ==
    /\ rk_pc = "score"
    /\ score_i <= Len(rank_input)
    /\ \E reply \in GraderReplies :
           score_window(rank_input[score_i], reply, is_fitted).called
    /\ rk_pc' = "grading"
    /\ grader_calls' = grader_calls + 1
    /\ grader_in_flight' = grader_in_flight + 1
    /\ UNCHANGED <<rank_input, top_k, is_fitted, tfidf_fits, score_i,
                   scored_windows, last_reply, ranked>>
    /\ UNCHANGED <<wg_vars, rn_vars, pl_vars, cs_vars, al_vars>>

\* rank_windows, lines 476-478: score_window returns (at once for a window
\* without text, with the answer of the back-end otherwise) and
\* (window, scores) is appended
ScoreWindow ==
    /\ score_i <= Len(rank_input)
    /\ \E reply \in GraderReplies :
         LET r == score_window(rank_input[score_i], reply, is_fitted)
         IN  /\ ~r.raised
             /\ rk_pc = (IF r.called THEN "grading" ELSE "score")
             /\ scored_windows' = Append(scored_windows,
                    [window |-> rank_input[score_i], scores |-> r.scores])
             /\ grader_in_flight' = (IF r.called THEN grader_in_flight - 1
                                     ELSE grader_in_flight)
             /\ last_reply' = (IF r.called THEN reply ELSE NoReply)
    /\ rk_pc' = "score"
    /\ score_i' = score_i + 1
    /\ UNCHANGED <<rank_input, top_k, is_fitted, tfidf_fits, grader_calls, ranked>>
    /\ UNCHANGED <<wg_vars, rn_vars, pl_vars, cs_vars, al_vars>>

\* rank_windows, line 477: score_window raises on the answer of the
\* back-end and nothing catches it
ScoreWindowRaises ==
    /\ rk_pc = "grading"
    /\ score_i <= Len(rank_input)
    /\ \E reply \in GraderReplies :
         LET r == score_window(rank_input[score_i], reply, is_fitted)
         IN  /\ r.raised
             /\ last_reply' = reply
    /\ grader_in_flight' = grader_in_flight - 1
    /\ rk_pc' = "raised"
    /\ UNCHANGED <<rank_input, top_k, is_fitted, tfidf_fits, score_i,
                   scored_windows, grader_calls, ranked>>
    /\ UNCHANGED <<wg_vars, rn_vars, pl_vars, cs_vars, al_vars>>

\* rank_windows, lines 481-483: sort and return the first top_k
SortAndReturn ==
    /\ rk_pc = "score"
    /\ score_i > Len(rank_input)
    /\ ranked' = Take(SortByFinalScore(scored_windows), top_k)
    /\ rk_pc' = "returned"
    /\ UNCHANGED <<rank_input, top_k, is_fitted, tfidf_fits, score_i,
                   scored_windows, grader_calls, grader_in_flight, last_reply>>
    /\ UNCHANGED <<wg_vars, rn_vars, pl_vars, cs_vars, al_vars>>

RKNext ==
    \/ FitCorpus \/ PostGradeRequest \/ ScoreWindow \/ ScoreWindowRaises
    \/ SortAndReturn

SpecRank == RKInit /\ [][RKNext]_vars

\* ------------------------------------------------------------------------
\* VideoRenderer.render_clip_with_captions and ClipBatch.render_top_clips
\* (cut_render.py), ClipyCutterPipeline._generate_report (cli.py)
\* ------------------------------------------------------------------------
RECURSIVE PrepareCaptions_NoClamp(_, _)
\* PrepareCaptions without the clamping to [0, window.duration]
PrepareCaptions_NoClamp(segments, window) ==
    IF segments = << >> THEN << >>
    ELSE LET segment       == Head(segments)
             caption_start == segment.start - window.start_time
             caption_end   == segment.end - window.start_time
             rest          == PrepareCaptions_NoClamp(Tail(segments), window)
         IN  IF caption_end > caption_start
             THEN << [text |-> segment.text, start |-> caption_start,
                      end |-> caption_end] >> \o rest
             ELSE rest

RECURSIVE PrepareCaptions(_, _)
\* render_clip_with_captions, step 2: segment times relative to the clip
PrepareCaptions(segments, window) ==
    IF segments = << >> THEN << >>
    ELSE LET segment       == Head(segments)
             caption_start == Max(0, segment.start - window.start_time)
             caption_end   == Min(window.duration, segment.end - window.start_time)
             rest          == PrepareCaptions(Tail(segments), window)
         IN  IF caption_end > caption_start
             THEN << [text |-> segment.text, start |-> caption_start,
                      end |-> caption_end] >> \o rest
             ELSE rest

\* the captions list render_clip_with_captions hands to add_captions_to_video
\* for a window, with the window it belongs to
CaptionsOf(window) ==
    [window |-> window,
     captions |-> PrepareCaptions(window.transcript_segments, window)]

\* names of the files of the clip at position k (rank k) of the ranking
TempFile(k, window)  == [kind |-> "temp", rank |-> k, window_id |-> window.window_id]
FinalFile(k, window) == [kind |-> "final", rank |-> k, window_id |-> window.window_id]
SrtFile(k, window)   == [kind |-> "srt", rank |-> k, window_id |-> window.window_id]

\* files on disk after a render whose extract pass failed
FilesAfterExtractFailure(fs, k, window) == fs

\* files on disk after a render whose caption pass failed: the extracted
\* temp file stays, and so does the subtitle file when one was written
FilesAfterCaptionFailure(fs, k, window) ==
    fs \cup {TempFile(k, window)}
       \cup (IF PrepareCaptions(window.transcript_segments, window) # << >>
             THEN {SrtFile(k, window)} ELSE {})

\* FilesAfterRender when the temp file is not unlinked after the caption pass
FilesAfterRender_KeepTemp(fs, k, window) ==
    (fs \cup {FinalFile(k, window), TempFile(k, window)}) \ {SrtFile(k, window)}

\* files on disk after a successful render: the final clip, the temp file
\* and the subtitle file removed
FilesAfterRender(fs, k, window) ==
    (fs \cup {FinalFile(k, window)}) \ {TempFile(k, window), SrtFile(k, window)}

\* render_top_clips, lines 445-456: the clip_info of a rendered clip
ClipInfo(k, entry) ==
    [rank |-> k,
     window_id |-> entry.window.window_id,
     start_time |-> entry.window.start_time,
     end_time |-> entry.window.end_time,
     duration |-> entry.window.duration,
     file_path |-> FinalFile(k, entry.window),
     score |-> entry.scores.final_score,
     text |-> entry.scores.text]

\* render_top_clips, lines 461-463: the list after the render of one
\* window raised ("continue")
ClipsAfterFailure(clips, k, entry) == clips

\* NextAfterFailure when the except branch leaves the loop ("break")
NextAfterFailure_Break(k, n) == n + 1

\* render_top_clips, lines 461-463: the position the loop goes on with
\* after the render at position k raised
NextAfterFailure(k, n) == k + 1

\* _generate_report, lines 202-216: the top_scores comprehension reads
\* scores['components']['llm_grading'] of every ranked window and raises
\* KeyError for a window scored by the early return (components = {})
ReportRaises(ranking) ==
    \E k \in DOMAIN ranking : ~ranking[k].scores.components.present

\* _generate_report
_generate_report(all_windows, ranking, clips) ==
    [present |-> TRUE,
     total_windows |-> Len(all_windows),
     ranked_windows |-> Len(ranking),
     clip_results |-> clips,
     clips_generated |-> Len(clips),
     top_scores |->
        [k \in DOMAIN ranking |->
            [rank |-> k,
             window_id |-> ranking[k].window.window_id,
             score |-> ranking[k].scores.final_score,
             start_time |-> ranking[k].window.start_time,
             end_time |-> ranking[k].window.end_time,
             cogency_score |-> ranking[k].scores.cogency_score,
             quotes |-> ranking[k].scores.components.llm_grading.quotes.val,
             scene_cuts |-> Len(ranking[k].window.scene_cuts)]]]

\* StartRender when rendering begins while rank_windows is still scoring
StartRender_WhileScoring ==
    /\ rk_pc = "score"
    /\ rn_pc = "idle"
    /\ rn_pc' = "render"
    /\ UNCHANGED <<render_i, rendered_clips, render_log, captions_written,
                   files, ffmpeg_in_flight, report>>
    /\ UNCHANGED <<wg_vars, rk_vars, pl_vars, cs_vars, al_vars>>

\* process_video, line 131: render_top_clips is entered
StartRender ==
    /\ rk_pc = "returned"
    /\ rn_pc = "idle"
    /\ rn_pc' = "render"
    /\ UNCHANGED <<render_i, rendered_clips, render_log, captions_written,
                   files, ffmpeg_in_flight, report>>
    /\ UNCHANGED <<wg_vars, rk_vars, pl_vars, cs_vars, al_vars>>

\* subprocess.run starts ffmpeg
SubprocessStarted(n) == n + 1

\* SubprocessEnded when a finished or timed-out ffmpeg is not reaped
SubprocessEnded_Leak(n) == n

\* subprocess.run returns: ffmpeg has exited, or was killed at the time-out
SubprocessEnded(n) == n - 1

\* add_captions_to_video, lines 189-193: without captions the clip is
\* copied and no ffmpeg is started
CaptionPassRunsFfmpeg(window) ==
    PrepareCaptions(window.transcript_segments, window) # << >>

\* one iteration of the loop of render_top_clips begins: extract_clip
\* starts ffmpeg (cut_render.py:108) and waits for it
BeginExtract ==
    /\ rn_pc = "render"
    /\ render_i <= Len(ranked)
    /\ rn_pc' = "extracting"
    /\ ffmpeg_in_flight' = SubprocessStarted(ffmpeg_in_flight)
    /\ UNCHANGED <<render_i, rendered_clips, render_log, captions_written,
                   files, report>>
    /\ UNCHANGED <<wg_vars, rk_vars, pl_vars, cs_vars, al_vars>>

\* extract_clip raises (ffmpeg exit status or time-out),
\* render_clip_with_captions re-raises, the loop catches it
RenderClipExtractFails ==
    /\ rn_pc = "extracting"
    /\ rendered_clips' = ClipsAfterFailure(rendered_clips, render_i, ranked[render_i])
    /\ files' = FilesAfterExtractFailure(files, render_i, ranked[render_i].window)
    /\ render_log' = Append(render_log, "extract_failed")
    /\ render_i' = NextAfterFailure(render_i, Len(ranked))
    /\ ffmpeg_in_flight' = SubprocessEnded(ffmpeg_in_flight)
    /\ rn_pc' = "render"
    /\ UNCHANGED <<captions_written, report>>
    /\ UNCHANGED <<wg_vars, rk_vars, pl_vars, cs_vars, al_vars>>

\* extract_clip returns; the captions are prepared and
\* add_captions_to_video starts its ffmpeg (cut_render.py:241) when there
\* are captions
BeginCaptions ==
    /\ rn_pc = "extracting"
    /\ rn_pc' = "captioning"
    /\ captions_written' = Append(captions_written,
                                  CaptionsOf(ranked[render_i].window))
    /\ files' = files \cup {TempFile(render_i, ranked[render_i].window)}
    /\ ffmpeg_in_flight' =
           (IF CaptionPassRunsFfmpeg(ranked[render_i].window)
            THEN SubprocessStarted(SubprocessEnded(ffmpeg_in_flight))
            ELSE SubprocessEnded(ffmpeg_in_flight))
    /\ UNCHANGED <<render_i, rendered_clips, render_log, report>>
    /\ UNCHANGED <<wg_vars, rk_vars, pl_vars, cs_vars, al_vars>>

\* the caption pass succeeds too: the clip is rendered
RenderClip ==
    /\ rn_pc = "captioning"
    /\ rendered_clips' = Append(rendered_clips, ClipInfo(render_i, ranked[render_i]))
    /\ files' = FilesAfterRender(files, render_i, ranked[render_i].window)
    /\ render_log' = Append(render_log, "rendered")
    /\ render_i' = render_i + 1
    /\ ffmpeg_in_flight' =
           (IF CaptionPassRunsFfmpeg(ranked[render_i].window)
            THEN SubprocessEnded(ffmpeg_in_flight) ELSE ffmpeg_in_flight)
    /\ rn_pc' = "render"
    /\ UNCHANGED <<captions_written, report>>
    /\ UNCHANGED <<wg_vars, rk_vars, pl_vars, cs_vars, al_vars>>

\* add_captions_to_video raises
RenderClipCaptionFails ==
    /\ rn_pc = "captioning"
    /\ rendered_clips' = ClipsAfterFailure(rendered_clips, render_i, ranked[render_i])
    /\ files' = FilesAfterCaptionFailure(files, render_i, ranked[render_i].window)
    /\ render_log' = Append(render_log, "caption_failed")
    /\ render_i' = NextAfterFailure(render_i, Len(ranked))
    /\ ffmpeg_in_flight' =
           (IF CaptionPassRunsFfmpeg(ranked[render_i].window)
            THEN SubprocessEnded(ffmpeg_in_flight) ELSE ffmpeg_in_flight)
    /\ rn_pc' = "render"
    /\ UNCHANGED <<captions_written, report>>
    /\ UNCHANGED <<wg_vars, rk_vars, pl_vars, cs_vars, al_vars>>

\* process_video, lines 139-147: render_top_clips has returned and the
\* report is built
GenerateReport ==
    /\ rn_pc = "render"
    /\ render_i > Len(ranked)
    /\ ~ReportRaises(ranked)
    /\ report' = _generate_report(rank_input, ranked, rendered_clips)
    /\ rn_pc' = "reported"
    /\ UNCHANGED <<render_i, rendered_clips, render_log, captions_written,
                   files, ffmpeg_in_flight>>
    /\ UNCHANGED <<wg_vars, rk_vars, pl_vars, cs_vars, al_vars>>

\* process_video, lines 139-161: _generate_report raises KeyError and
\* process_video re-raises it
GenerateReportRaises ==
    /\ rn_pc = "render"
    /\ render_i > Len(ranked)
    /\ ReportRaises(ranked)
    /\ rn_pc' = "failed"
    /\ UNCHANGED <<render_i, rendered_clips, render_log, captions_written,
                   files, ffmpeg_in_flight, report>>
    /\ UNCHANGED <<wg_vars, rk_vars, pl_vars, cs_vars, al_vars>>

RNNext ==
    \/ FitCorpus \/ PostGradeRequest \/ ScoreWindow \/ ScoreWindowRaises
    \/ SortAndReturn
    \/ StartRender \/ BeginExtract \/ RenderClipExtractFails \/ BeginCaptions
    \/ RenderClip \/ RenderClipCaptionFails
    \/ GenerateReport \/ GenerateReportRaises

\* rank_windows followed by render_top_clips and _generate_report, as
\* process_video runs them
SpecRender == RKInit /\ [][RNNext]_vars

\* ------------------------------------------------------------------------
\* ClipyCutterPipeline.process_video, _save_csv_log and main (cli.py)
\* ------------------------------------------------------------------------
\* _save_csv_log raises: KeyError at scores['components']['keyphrases'] for
\* scores of the early return, TypeError at ', '.join(salient_terms) when
\* the grader sent null for salient_terms
CsvRaises(ranking) ==
    \E k \in DOMAIN ranking :
        \/ ~ranking[k].scores.components.present
        \/ ~HasLen(ranking[k].scores.components.llm_grading.salient_terms)

\* _save_csv_log, lines 231-235 and 257: the file_path column
CsvFilePath(window, clips) ==
    LET hits == {c \in DOMAIN clips : clips[c].window_id = window.window_id}
    IN  IF hits = {}
        THEN [kind |-> "none", rank |-> 0, window_id |-> window.window_id]
        ELSE clips[SetMin(hits)].file_path

\* _save_csv_log: one row per ranked window
_save_csv_log(ranking, clips) ==
    [present |-> TRUE,
     rows |-> [k \in DOMAIN ranking |->
                  [rank |-> k,
                   window_id |-> ranking[k].window.window_id,
                   final_score |-> ranking[k].scores.final_score,
                   quote_count |-> ranking[k].scores.components.llm_grading.quotes.val,
                   file_path |-> CsvFilePath(ranking[k].window, clips)]]]

\* ---- inputs of process_video: what the download and the transcription
\* of the video yield ----
PipelineDurations == {60, 120}
PipelineCuts == {{}, {20}}
PipelineTranscriptions ==
    {[present |-> TRUE, sentences |-> ss] :
        ss \in {<< >>,
                << Seg(GoodText, 10, 20) >>,
                << Seg(GoodText, 10, 20), Seg(FillerText, 95, 110) >>}}

\* main calls process_video
PLInit ==
    /\ WGIdle
    /\ RKIdle
    /\ RNIdle
    /\ CSIdle
    /\ ALIdle
    /\ pl_pc = "download"
    /\ pl_error = "none"
    /\ csv_log = NoCsvLog
    /\ exit_status = 0

\* process_video, line 109: download_video returns the paths and metadata
DownloadVideo ==
    /\ pl_pc = "download"
    /\ video_duration' \in PipelineDurations
    /\ video_cuts' \in PipelineCuts
    /\ pl_pc' = "transcribe"
    /\ UNCHANGED <<wg_pc, transcription, scene_cuts, current_start, window_id,
                   windows>>
    /\ UNCHANGED <<pl_error, csv_log, exit_status>>
    /\ UNCHANGED <<rk_vars, rn_vars, cs_vars, al_vars>>

\* process_video, line 109: download_video raises (logged and re-raised)
DownloadVideoFails ==
    /\ pl_pc = "download"
    /\ pl_pc' = "failed"
    /\ pl_error' = "download"
    /\ UNCHANGED <<csv_log, exit_status>>
    /\ UNCHANGED <<wg_vars, rk_vars, rn_vars, cs_vars, al_vars>>

\* process_video, lines 113-121: process_audio_file returns the
\* transcription and generate_windows is called with it
ProcessAudioFile ==
    /\ pl_pc = "transcribe"
    /\ transcription' \in PipelineTranscriptions
    /\ wg_pc' = "detect"
    /\ pl_pc' = "running"
    /\ UNCHANGED <<video_duration, video_cuts, scene_cuts, current_start,
                   window_id, windows>>
    /\ UNCHANGED <<pl_error, csv_log, exit_status>>
    /\ UNCHANGED <<rk_vars, rn_vars, cs_vars, al_vars>>

\* the stage process_audio_file raises in: the health check answers False
\* (line 201) or transcribe_audio raises (line 204); both are re-raised
TranscriptionFailures == {"unhealthy", "transcription"}

\* process_audio_file that returns an empty result when it fails
ProcessAudioFileFails_Swallowed ==
    /\ pl_pc = "transcribe"
    /\ pl_error' \in TranscriptionFailures
    /\ transcription' = NoTranscription
    /\ wg_pc' = "detect"
    /\ pl_pc' = "running"
    /\ UNCHANGED <<video_duration, video_cuts, scene_cuts, current_start,
                   window_id, windows>>
    /\ UNCHANGED <<csv_log, exit_status>>
    /\ UNCHANGED <<rk_vars, rn_vars, cs_vars, al_vars>>

\* process_video, line 113: process_audio_file raises
ProcessAudioFileFails ==
    /\ pl_pc = "transcribe"
    /\ pl_error' \in TranscriptionFailures
    /\ pl_pc' = "failed"
    /\ UNCHANGED <<csv_log, exit_status>>
    /\ UNCHANGED <<wg_vars, rk_vars, rn_vars, cs_vars, al_vars>>

\* process_video, line 127: generate_windows has returned and rank_windows
\* is called with its windows and the --k argument
StartRank ==
    /\ pl_pc = "running"
    /\ wg_pc = "returned"
    /\ rk_pc = "idle"
    /\ rk_pc' = "fit"
    /\ rank_input' = windows
    /\ top_k' \in 1..MaxTopK
    /\ UNCHANGED <<is_fitted, tfidf_fits, score_i, scored_windows, grader_calls,
                   grader_in_flight, last_reply, ranked>>
    /\ UNCHANGED <<wg_vars, rn_vars, pl_vars, cs_vars, al_vars>>

\* process_video, lines 159-161: the exception of rank_windows or of
\* _generate_report is logged and re-raised
ProcessVideoRaises ==
    /\ pl_pc = "running"
    /\ rk_pc = "raised" \/ rn_pc = "failed"
    /\ pl_pc' = "failed"
    /\ pl_error' = (IF rk_pc = "raised" THEN "rank" ELSE "report")
    /\ UNCHANGED <<csv_log, exit_status>>
    /\ UNCHANGED <<wg_vars, rk_vars, rn_vars, cs_vars, al_vars>>

\* process_video, lines 150-157: the CSV log is written and the report
\* returned
SaveCsvLog ==
    /\ pl_pc = "running"
    /\ rn_pc = "reported"
    /\ ~CsvRaises(ranked)
    /\ csv_log' = _save_csv_log(ranked, rendered_clips)
    /\ pl_pc' = "returned"
    /\ UNCHANGED <<pl_error, exit_status>>
    /\ UNCHANGED <<wg_vars, rk_vars, rn_vars, cs_vars, al_vars>>

\* process_video, line 150: _save_csv_log raises
SaveCsvLogRaises ==
    /\ pl_pc = "running"
    /\ rn_pc = "reported"
    /\ CsvRaises(ranked)
    /\ pl_pc' = "failed"
    /\ pl_error' = "csv"
    /\ UNCHANGED <<csv_log, exit_status>>
    /\ UNCHANGED <<wg_vars, rk_vars, rn_vars, cs_vars, al_vars>>

\* main, lines 400-420: the summary is printed and main returns
MainReturns ==
    /\ pl_pc = "returned"
    /\ pl_pc' = "exited"
    /\ exit_status' = 0
    /\ UNCHANGED <<pl_error, csv_log>>
    /\ UNCHANGED <<wg_vars, rk_vars, rn_vars, cs_vars, al_vars>>

\* main, lines 425-427: "Processing failed", sys.exit(1)
MainExitsOnFailure ==
    /\ pl_pc = "failed"
    /\ pl_pc' = "exited"
    /\ exit_status' = 1
    /\ UNCHANGED <<pl_error, csv_log>>
    /\ UNCHANGED <<wg_vars, rk_vars, rn_vars, cs_vars, al_vars>>

\* the files a render interrupted at position k may leave behind: ffmpeg is
\* killed by subprocess.run, which re-raises KeyboardInterrupt; no handler
\* on the way up to main removes anything.  The output of the killed ffmpeg
\* (temp file in the extract pass, final file in the caption pass) may or
\* may not have been created; the extracted temp file and the subtitle file
\* of the caption pass are on disk
FilesAfterInterrupt(fs, pass, k, window) ==
    IF pass = "extracting"
    THEN {fs, fs \cup {TempFile(k, window)}}
    ELSE LET kept == fs \cup {TempFile(k, window)}
                        \cup (IF CaptionPassRunsFfmpeg(window)
                              THEN {SrtFile(k, window)} ELSE {})
         IN  {kept, kept \cup {FinalFile(k, window)}}

\* Ctrl-C while render_clip_with_captions waits for ffmpeg: KeyboardInterrupt
\* is not an Exception, so it passes the handlers of cut_render.py and of
\* process_video and reaches main, line 422
KeyboardInterrupt ==
    /\ pl_pc = "running"
    /\ rn_pc \in {"extracting", "captioning"}
    /\ files' \in FilesAfterInterrupt(files, rn_pc, render_i, ranked[render_i].window)
    /\ ffmpeg_in_flight' = 0
    /\ rn_pc' = "interrupted"
    /\ pl_pc' = "interrupted"
    /\ pl_error' = "interrupt"
    /\ UNCHANGED <<render_i, rendered_clips, render_log, captions_written, report>>
    /\ UNCHANGED <<csv_log, exit_status>>
    /\ UNCHANGED <<wg_vars, rk_vars, cs_vars, al_vars>>

\* main, lines 422-424: "Processing interrupted by user", sys.exit(1)
MainExitsOnInterrupt ==
    /\ pl_pc = "interrupted"
    /\ pl_pc' = "exited"
    /\ exit_status' = 1
    /\ UNCHANGED <<pl_error, csv_log>>
    /\ UNCHANGED <<wg_vars, rk_vars, rn_vars, cs_vars, al_vars>>

PLNext ==
    \/ DownloadVideo \/ DownloadVideoFails
    \/ ProcessAudioFile \/ ProcessAudioFileFails
    \/ WGNext
    \/ StartRank
    \/ RNNext
    \/ ProcessVideoRaises \/ SaveCsvLog \/ SaveCsvLogRaises
    \/ MainReturns \/ MainExitsOnFailure
    \/ KeyboardInterrupt \/ MainExitsOnInterrupt

\* one run of the command line: main, process_video and every stage it calls
SpecPipeline == PLInit /\ [][PLNext]_vars

\* ------------------------------------------------------------------------
\* The web API (main.py) and VideoProcessor (video_processor.py).  The
\* handlers and the background tasks are coroutines of one event loop, and
\* none of them awaits anything that suspends: a handler runs from its
\* first line to its last, and a background task, once started, keeps the
\* loop until it ends.
\* ------------------------------------------------------------------------
\* clips_storage with the fields of the record of clip c replaced
WriteRecord(c, fields) ==
    [clips_storage EXCEPT ![c] = fields @@ clips_storage[c]]

\* cs_writers with function f noted as a writer of the record of clip c
NoteWriter(c, f) == [cs_writers EXCEPT ![c] = @ \cup {f}]

\* the event loop is not inside a background task or a blocking handler
LoopFree == cs_running = NoTask

\* POST /api/process-clip: the record is stored and process_video_clip added
\* as a background task (the uuid4 is an id not in use)
process_clip ==
    /\ LoopFree
    /\ \E c \in ClipIds :
         /\ ~clips_storage[c].exists
         /\ clips_storage' = WriteRecord(c,
                [exists |-> TRUE, status |-> "processing", video_path |-> "none",
                 captions |-> "none", youtube_upload |-> "none"])
         /\ cs_queue' = cs_queue \cup {Task("process", c, "queued", "none", 0, FALSE)}
         /\ cs_writers' = NoteWriter(c, "process_clip")
    /\ UNCHANGED <<cs_running, cs_updates, cs_regen>>
    /\ UNCHANGED <<wg_vars, rk_vars, rn_vars, pl_vars, al_vars>>

\* POST /api/clip/{clip_id}/update-captions for a stored clip: the handler
\* writes captions, speakers and status and adds regenerate_with_captions;
\* the request carries no caption ("empty") or some ("edited")
update_captions ==
    /\ LoopFree
    /\ cs_updates < MaxUpdates
    /\ \E c \in ClipIds, sent \in {"empty", "edited"} :
         /\ clips_storage[c].exists
         /\ clips_storage' = WriteRecord(c, [captions |-> sent, status |-> "updating"])
         /\ cs_queue' = cs_queue \cup
                {Task("regenerate", c, "queued", sent, cs_updates + 1,
                      clips_storage[c].status = "completed")}
         /\ cs_writers' = NoteWriter(c, "update_captions")
    /\ cs_updates' = cs_updates + 1
    /\ UNCHANGED <<cs_running, cs_regen>>
    /\ UNCHANGED <<wg_vars, rk_vars, rn_vars, pl_vars, al_vars>>

\* POST /api/clip/{clip_id}/upload for a stored clip in status "completed":
\* the handler calls upload_video, whose loop blocks the event loop
upload_to_youtube ==
    /\ LoopFree
    /\ \E c \in ClipIds :
         /\ clips_storage[c].exists
         /\ clips_storage[c].status = "completed"
         /\ cs_running' = Task("upload", c, "next_chunk", "none", 0, TRUE)
    /\ UNCHANGED <<clips_storage, cs_queue, cs_writers, cs_updates, cs_regen>>
    /\ UNCHANGED <<wg_vars, rk_vars, rn_vars, pl_vars, al_vars>>

\* upload_video, lines 88-90 and 103-107: next_chunk raises; response stays
\* None, so the loop goes on unless this was the fourth failure, which is
\* raised to the handler (HTTP 500, nothing written)
NextChunkRaises ==
    /\ cs_running.kind = "upload"
    /\ cs_running' = (IF cs_running.retry + 1 > 3 THEN NoTask
                      ELSE [cs_running EXCEPT !.retry = @ + 1])
    /\ UNCHANGED <<clips_storage, cs_queue, cs_writers, cs_updates, cs_regen>>
    /\ UNCHANGED <<wg_vars, rk_vars, rn_vars, pl_vars, al_vars>>

\* what upload_video does with the response next_chunk returned, lines
\* 91-109: with an 'id' the result is returned; without one the exception
\* of line 102 is caught at line 103, and unless retry now exceeds 3 the loop
\* ends because response is no longer None and line 109 returns the response
UploadOutcome(has_id, retry) ==
    IF has_id THEN "result"
    ELSE IF retry + 1 > 3 THEN "raised"
    ELSE "response"

\* upload_video: next_chunk returns a response; upload_to_youtube, lines
\* 136-138, stores what upload_video returned
NextChunkResponse ==
    /\ cs_running.kind = "upload"
    /\ \E has_id \in BOOLEAN :
         LET outcome == UploadOutcome(has_id, cs_running.retry)
         IN  IF outcome = "raised"
             THEN UNCHANGED <<clips_storage, cs_writers>>
             ELSE /\ clips_storage' = WriteRecord(cs_running.clip,
                                                  [youtube_upload |-> outcome])
                  /\ cs_writers' = NoteWriter(cs_running.clip, "upload_to_youtube")
    /\ cs_running' = NoTask
    /\ UNCHANGED <<cs_queue, cs_updates, cs_regen>>
    /\ UNCHANGED <<wg_vars, rk_vars, rn_vars, pl_vars, al_vars>>

\* process_video_clip starts: status "downloading" (line 25)
StartProcessVideoClip ==
    /\ LoopFree
    /\ \E t \in cs_queue :
         /\ t.kind = "process"
         /\ cs_queue' = cs_queue \ {t}
         /\ cs_running' = [t EXCEPT !.pc = "download"]
         /\ clips_storage' = WriteRecord(t.clip, [status |-> "downloading"])
         /\ cs_writers' = NoteWriter(t.clip, "process_video_clip")
    /\ UNCHANGED <<cs_updates, cs_regen>>
    /\ UNCHANGED <<wg_vars, rk_vars, rn_vars, pl_vars, al_vars>>

\* AfterStep when the statuses of lines 32 and 36 are exchanged
AfterStep_Exchanged(pc) ==
    CASE pc = "download"   -> [fields |-> [video_path |-> "original",
                                           status |-> "transcribing"],
                               next |-> "crop"]
      [] pc = "crop"       -> [fields |-> [status |-> "processing_video"],
                               next |-> "transcribe"]
      [] pc = "transcribe" -> [fields |-> [captions |-> "transcribed",
                                           status |-> "finalizing"],
                               next |-> "finalize"]
      [] pc = "finalize"   -> [fields |-> [video_path |-> "final",
                                           status |-> "completed"],
                               next |-> "done"]

\* the status and the fields process_video_clip writes when the step it is
\* at returns (lines 28-48), and the step it goes on with
AfterStep(pc) ==
    CASE pc = "download"   -> [fields |-> [video_path |-> "original",
                                           status |-> "processing_video"],
                               next |-> "crop"]
      [] pc = "crop"       -> [fields |-> [status |-> "transcribing"],
                               next |-> "transcribe"]
      [] pc = "transcribe" -> [fields |-> [captions |-> "transcribed",
                                           status |-> "finalizing"],
                               next |-> "finalize"]
      [] pc = "finalize"   -> [fields |-> [video_path |-> "final",
                                           status |-> "completed"],
                               next |-> "done"]

\* process_video_clip: the step it is at returns
ProcessVideoClipStep ==
    /\ cs_running.kind = "process"
    /\ LET a == AfterStep(cs_running.pc)
       IN  /\ clips_storage' = WriteRecord(cs_running.clip, a.fields)
           /\ cs_running' = (IF a.next = "done" THEN NoTask
                             ELSE [cs_running EXCEPT !.pc = a.next])
    /\ UNCHANGED <<cs_queue, cs_writers, cs_updates, cs_regen>>
    /\ UNCHANGED <<wg_vars, rk_vars, rn_vars, pl_vars, al_vars>>

\* process_video_clip, lines 50-53: the step it is at raises
ProcessVideoClipRaises ==
    /\ cs_running.kind = "process"
    /\ clips_storage' = WriteRecord(cs_running.clip, [status |-> "error"])
    /\ cs_running' = NoTask
    /\ UNCHANGED <<cs_queue, cs_writers, cs_updates, cs_regen>>
    /\ UNCHANGED <<wg_vars, rk_vars, rn_vars, pl_vars, al_vars>>

\* regenerate_with_captions starts; it writes nothing before it ends
StartRegenerateWithCaptions ==
    /\ LoopFree
    /\ \E t \in cs_queue :
         /\ t.kind = "regenerate"
         /\ cs_queue' = cs_queue \ {t}
         /\ cs_running' = [t EXCEPT !.pc = "regenerate"]
    /\ UNCHANGED <<clips_storage, cs_writers, cs_updates, cs_regen>>
    /\ UNCHANGED <<wg_vars, rk_vars, rn_vars, pl_vars, al_vars>>

\* why regenerate_with_captions cannot succeed, "none" when it can:
\* video_path is None (line 172 raises AttributeError); the captions are
\* Caption objects, not dicts (Caption(**caption) raises TypeError, line
\* 175); the input <id>_updated_cropped.mp4, derived at line 172 from the
\* path <id>_updated_final.mp4 of an earlier run, does not exist
RegenerateFailure(t) ==
    IF clips_storage[t.clip].video_path = "none" THEN "no_video_path"
    ELSE IF t.captions = "edited" THEN "bad_captions"
    ELSE IF clips_storage[t.clip].video_path = "updated_final" THEN "missing_input"
    ELSE "none"

\* the entry of cs_regen for the run that ends now
RegenRun(t, outcome) ==
    [seq |-> t.seq, from_completed |-> t.from_completed,
     input |-> clips_storage[t.clip].video_path, outcome |-> outcome]

\* regenerate_with_captions ends with status "completed" (lines 178-182)
RegenerateWithCaptions ==
    /\ cs_running.kind = "regenerate"
    /\ RegenerateFailure(cs_running) = "none"
    /\ clips_storage' = WriteRecord(cs_running.clip,
           [video_path |-> "updated_final", status |-> "completed"])
    /\ cs_writers' = NoteWriter(cs_running.clip, "regenerate_with_captions")
    /\ cs_regen' = [cs_regen EXCEPT ![cs_running.clip] =
                        Append(@, RegenRun(cs_running, "completed"))]
    /\ cs_running' = NoTask
    /\ UNCHANGED <<cs_queue, cs_updates>>
    /\ UNCHANGED <<wg_vars, rk_vars, rn_vars, pl_vars, al_vars>>

\* regenerate_with_captions raises (lines 184-186): for one of the reasons
\* of RegenerateFailure, or because ffmpeg failed on an input that exists
RegenerateWithCaptionsRaises ==
    /\ cs_running.kind = "regenerate"
    /\ LET cause == IF RegenerateFailure(cs_running) = "none" THEN "ffmpeg_failed"
                    ELSE RegenerateFailure(cs_running)
       IN  cs_regen' = [cs_regen EXCEPT ![cs_running.clip] =
                           Append(@, RegenRun(cs_running, cause))]
    /\ clips_storage' = WriteRecord(cs_running.clip, [status |-> "error"])
    /\ cs_writers' = NoteWriter(cs_running.clip, "regenerate_with_captions")
    /\ cs_running' = NoTask
    /\ UNCHANGED <<cs_queue, cs_updates>>
    /\ UNCHANGED <<wg_vars, rk_vars, rn_vars, pl_vars, al_vars>>

CSInit ==
    /\ WGIdle
    /\ RKIdle
    /\ RNIdle
    /\ PLIdle
    /\ CSIdle
    /\ ALIdle

CSNext ==
    \/ process_clip \/ update_captions \/ upload_to_youtube
    \/ NextChunkRaises \/ NextChunkResponse
    \/ StartProcessVideoClip \/ ProcessVideoClipStep \/ ProcessVideoClipRaises
    \/ StartRegenerateWithCaptions
    \/ RegenerateWithCaptions \/ RegenerateWithCaptionsRaises

\* the web API serving requests
SpecClips == CSInit /\ [][CSNext]_vars

\* the web API when every background task that was added is started by the
\* event loop, and every download, ffmpeg, transcription and upload call
\* returns or raises
SpecClipsFair ==
    /\ SpecClips
    /\ SF_vars(StartProcessVideoClip)
    /\ SF_vars(StartRegenerateWithCaptions)
    /\ WF_vars(ProcessVideoClipStep \/ ProcessVideoClipRaises)
    /\ WF_vars(RegenerateWithCaptions \/ RegenerateWithCaptionsRaises)
    /\ WF_vars(NextChunkRaises \/ NextChunkResponse)

\* ------------------------------------------------------------------------
\* VLLMWhisperClient.align_to_sentences (asr_vllm.py).  The text of a word
\* is a sequence of characters.
\* ------------------------------------------------------------------------
MaxWords == 3

\* the 'word' values of the transcription: plain words, words that end
\* with punctuation, words with punctuation inside ("3.5"), a word with the
\* leading blank Whisper emits, a word followed by a blank, and a blank
WordTexts ==
    { << "a" >>, << "a", "." >>, << "a", "!", "?" >>, << "3", ".", "5" >>,
      << " ", "a" >>, << "a", "?", " " >>, << " " >> }

\* the k-th word of the transcription, with its timestamps
WordAt(k, text) == [word |-> text, start |-> 10 * (k - 1), end |-> 10 * (k - 1) + 5]

\* transcription['words']
WordLists ==
    UNION {{[k \in 1..n |-> WordAt(k, f[k])] : f \in [1..n -> WordTexts]} : n \in 0..MaxWords}

RECURSIVE LStrip(_)
\* str.lstrip()
LStrip(w) == IF w # << >> /\ Head(w) = " " THEN LStrip(Tail(w)) ELSE w

RECURSIVE RStrip(_)
\* str.rstrip()
RStrip(w) ==
    IF w # << >> /\ w[Len(w)] = " " THEN RStrip(SubSeq(w, 1, Len(w) - 1)) ELSE w

\* str.strip()
Strip(w) == RStrip(LStrip(w))

\* the characters of the pattern [.!?]+
SentenceEndingChars == {".", "!", "?"}

\* sentence_endings.search(word): the pattern matches somewhere in the word
SentenceEndingFound(word) ==
    \E k \in DOMAIN word : word[k] \in SentenceEndingChars

\* lines 153-158: current_sentence after the word was added to it
WithWord(current, word_data) ==
    [text  |-> Append(current.text, Strip(word_data.word)),
     start |-> IF current.start = -1 THEN word_data.start ELSE current.start,
     end   |-> word_data.end,
     words |-> Append(current.words, word_data)]

ALInit ==
    /\ WGIdle
    /\ RKIdle
    /\ RNIdle
    /\ PLIdle
    /\ CSIdle
    /\ al_pc = "loop"
    /\ al_words \in WordLists
    /\ al_i = 1
    /\ al_sentences = << >>
    /\ al_current = NewSentence

\* one iteration of the loop over transcription['words'], lines 150-172
AlignWord ==
    /\ al_pc = "loop"
    /\ al_i <= Len(al_words)
    /\ LET current == WithWord(al_current, al_words[al_i])
       IN  IF SentenceEndingFound(Strip(al_words[al_i].word))
           THEN /\ al_sentences' = Append(al_sentences, current)
                /\ al_current' = NewSentence
           ELSE /\ al_sentences' = al_sentences
                /\ al_current' = current
    /\ al_i' = al_i + 1
    /\ UNCHANGED <<al_pc, al_words>>
    /\ UNCHANGED <<wg_vars, rk_vars, rn_vars, pl_vars, cs_vars>>

\* AlignReturn without lines 174-177: the remaining words are not flushed
AlignReturn_DropTrailing ==
    /\ al_pc = "loop"
    /\ al_i > Len(al_words)
    /\ al_pc' = "returned"
    /\ UNCHANGED <<al_words, al_i, al_sentences, al_current>>
    /\ UNCHANGED <<wg_vars, rk_vars, rn_vars, pl_vars, cs_vars>>

\* lines 174-179: the remaining words become a final sentence; return
AlignReturn ==
    /\ al_pc = "loop"
    /\ al_i > Len(al_words)
    /\ al_sentences' = (IF al_current.words # << >>
                        THEN Append(al_sentences, al_current)
                        ELSE al_sentences)
    /\ al_pc' = "returned"
    /\ UNCHANGED <<al_words, al_i, al_current>>
    /\ UNCHANGED <<wg_vars, rk_vars, rn_vars, pl_vars, cs_vars>>

ALNext == AlignWord \/ AlignReturn

\* one call of align_to_sentences
SpecAlign == ALInit /\ [][ALNext]_vars

\* ------------------------------------------------------------------------
\* Properties of generate_windows
\* ------------------------------------------------------------------------
\* the nominal (pre-snap) start of the window with sequence number id
NominalStart(id) == id * stride

\* the cuts of scene_cuts nearest to t
NearestCuts(t) ==
    {c \in Range(scene_cuts) :
        \A d \in Range(scene_cuts) : Abs(c - t) <= Abs(d - t)}

\* the values the rule "snap to the nearest cut when it is within
\* snap_threshold, stay at t otherwise" allows for the nominal time t
NearestSnap(t) ==
    IF \E c \in Range(scene_cuts) : Abs(c - t) <= snap_threshold
    THEN NearestCuts(t)
    ELSE {t}

\* C1: every emitted window has duration end - start <= window_duration (90 s)
C1_DurationAtMostWindow ==
    \A i \in DOMAIN windows :
        windows[i].end_time - windows[i].start_time <= window_duration

\* C2: the start of every emitted window is the cut nearest to its nominal
\* time t when that cut is within snap_threshold of t and t otherwise, and
\* its end is snapped the same way against t + window_duration
C2_SnapsToNearestCut ==
    \A i \in DOMAIN windows :
        LET t == NominalStart(windows[i].window_id)
        IN  /\ windows[i].start_time \in NearestSnap(t)
            /\ windows[i].end_time \in NearestSnap(t + window_duration)

\* C3: for 0 < D <= window_duration generate_windows returns exactly one
\* window, [0, D]
C3_ShortVideoSingleWindow ==
    (wg_pc = "returned" /\ 0 < video_duration /\ video_duration <= window_duration)
        => /\ Len(windows) = 1
           /\ windows[1].start_time = 0
           /\ windows[1].end_time = video_duration

\* the sentence S is one of the segments attached to the window W
Attached(S, W) ==
    \E k \in DOMAIN W.transcript_segments :
        /\ W.transcript_segments[k].start = S.start
        /\ W.transcript_segments[k].end = S.end
        /\ W.transcript_segments[k].text = S.text

\* twice the overlap min(S.end, W.end) - max(S.start, W.start)
TwiceOverlap(S, W) ==
    2 * (Min(S.end, W.end_time) - Max(S.start, W.start_time))

\* C4: a sentence S of the transcript is attached to an emitted window W if
\* and only if its overlap with W is strictly greater than half its duration
C4_AttachedIffMajorityOverlap ==
    \A i \in DOMAIN windows :
        \A j \in DOMAIN transcription.sentences :
            LET W == windows[i]
                S == transcription.sentences[j]
            IN  Attached(S, W) <=> (TwiceOverlap(S, W) > S.end - S.start)

\* C4 witness: D = 120 without cuts and a sentence at [10, 12]: the window
\* [0, 90] holds the sentence and the window [15, 105] does not
C4_Witness ==
    /\ wg_pc = "returned"
    /\ video_duration = 120
    /\ scene_cuts = << >>
    /\ Len(windows) = 2
    /\ \E j \in DOMAIN transcription.sentences :
         LET S == transcription.sentences[j]
         IN  /\ S.start = 10 /\ S.end = 12
             /\ Attached(S, windows[1])
             /\ ~Attached(S, windows[2])

\* C14: the windows generate_windows emits are in strictly increasing
\* start_time order and the k-th of them (from 0) carries the id window_00k
C14_StrictlyIncreasingStarts ==
    \A i \in DOMAIN windows :
        /\ windows[i].window_id = i - 1
        /\ \A j \in DOMAIN windows :
               i < j => windows[i].start_time < windows[j].start_time

\* generate_windows returned two windows or more, one with a snapped start
C14_Witness ==
    /\ wg_pc = "returned"
    /\ Len(windows) >= 2
    /\ \E i \in DOMAIN windows :
           windows[i].start_time # NominalStart(windows[i].window_id)

UnitInterval(x) == 0 <= x /\ x <= 100

\* C5: for every scored window final_score lies in [0, 1] and so does each
\* of keyphrase_score, density_score, cogency_score, quote_bonus,
\* scene_penalty and filler_penalty (the penalties are non-negative)
C5_ScoresInUnitInterval ==
    \A k \in DOMAIN scored_windows :
        LET sc == scored_windows[k].scores
        IN  /\ 0 <= sc.final_score /\ sc.final_score <= 10000
            /\ UnitInterval(sc.keyphrase_score)
            /\ UnitInterval(sc.density_score)
            /\ UnitInterval(sc.cogency_score)
            /\ UnitInterval(sc.quote_bonus)
            /\ UnitInterval(sc.scene_penalty)
            /\ UnitInterval(sc.filler_penalty)

\* a comes before b in the order (final desc, start asc, id asc)
RankOrder(a, b) ==
    \/ a.scores.final_score > b.scores.final_score
    \/ /\ a.scores.final_score = b.scores.final_score
       /\ \/ a.window.start_time < b.window.start_time
          \/ /\ a.window.start_time = b.window.start_time
             /\ a.window.window_id <= b.window.window_id

\* C6: the list rank_windows returns is sorted by final_score descending,
\* ties by start_time ascending, then window_id ascending, for every order
\* of the input list
C6_TiesByStartThenId ==
    rk_pc = "returned" =>
        \A i, j \in DOMAIN ranked : i < j => RankOrder(ranked[i], ranked[j])

\* C7: no failure while scoring one window aborts rank_windows
C7_ScoringFailureDoesNotAbort ==
    rk_pc # "raised"

DegradedKinds == {"http_error", "timeout", "malformed"}

\* C9: when the back-end answers a window's request with a non-200 status,
\* a time-out or malformed JSON, scoring does not raise, the window gets
\* the default grading, cogency_score 0.2 and quote_bonus 0, and its record
\* is marked as degraded (it carries the key 'error')
C9_DegradedGraderDefaultsAndMark ==
    last_reply.kind \in DegradedKinds =>
        /\ rk_pc # "raised"
        /\ LET sc == scored_windows[Len(scored_windows)].scores
           IN  /\ sc.components.llm_grading.cogency = JInt(1)
               /\ sc.components.llm_grading.quotes = JList(0)
               /\ sc.components.llm_grading.salient_terms = JList(0)
               /\ sc.cogency_score = 20
               /\ sc.quote_bonus = 0
               /\ sc.components.llm_grading.has_error

\* C10: the cogency of a graded window is clamped into 1..5 before it is
\* normalised: cogency_score is one of 0.2, 0.4, 0.6, 0.8, 1.0
C10_CogencyClamped ==
    \A k \in DOMAIN scored_windows :
        scored_windows[k].scores.components.present =>
            scored_windows[k].scores.cogency_score \in {20, 40, 60, 80, 100}

\* windows of rank_input that score_window was called for so far
ScoredPositions ==
    {k \in DOMAIN rank_input :
        k < score_i \/ (k = score_i /\ rk_pc \in {"grading", "raised"})}

\* C12: a window whose text is empty or whitespace gets final_score 0 and
\* every sub-score 0, and no request is sent to the grader for it: the
\* requests made never outnumber the scored windows that have text
C12_EmptyTextZeroNoGrading ==
    /\ \A k \in DOMAIN scored_windows :
           _extract_window_text(scored_windows[k].window) = << >> =>
               LET sc == scored_windows[k].scores
               IN  /\ sc.final_score = 0
                   /\ sc.keyphrase_score = 0
                   /\ sc.density_score = 0
                   /\ sc.cogency_score = 0
                   /\ sc.quote_bonus = 0
                   /\ sc.scene_penalty = 0
                   /\ sc.filler_penalty = 0
    /\ grader_calls <=
           Cardinality({k \in ScoredPositions :
                           _extract_window_text(rank_input[k]) # << >>})

\* a whitespace-only window and a window with text were both scored
C12_Witness ==
    /\ rk_pc = "returned"
    /\ grader_calls = 1
    /\ \E k \in DOMAIN scored_windows :
           /\ Len(scored_windows[k].window.transcript_segments) = 2
           /\ _extract_window_text(scored_windows[k].window) = << >>

\* ------------------------------------------------------------------------
\* Properties of render_top_clips and the report
\* ------------------------------------------------------------------------
\* positions of the ranking whose render succeeded
RenderedPositions == {k \in DOMAIN render_log : render_log[k] = "rendered"}

OverlappingSegments(window) ==
    {k \in DOMAIN window.transcript_segments :
        LET seg == window.transcript_segments[k]
        IN  /\ seg.start < seg.end
            /\ seg.end > window.start_time
            /\ seg.start < window.start_time + window.duration}

\* C13: every caption handed to the subtitle writer for a clip has
\* 0 <= start < end <= window.duration, and the captions are exactly the
\* segments that overlap the window for a positive length (the others,
\* whose rebased duration is <= 0, are dropped)
C13_CaptionsWithinClip ==
    \A k \in DOMAIN captions_written :
        LET e == captions_written[k]
        IN  /\ \A c \in DOMAIN e.captions :
                   /\ 0 <= e.captions[c].start
                   /\ e.captions[c].start < e.captions[c].end
                   /\ e.captions[c].end <= e.window.duration
            /\ Len(e.captions) = Cardinality(OverlappingSegments(e.window))

\* one clip got a caption clamped at the clip start, another a caption
\* clamped at the clip end or lost a segment
C13_Witness ==
    /\ \E k \in DOMAIN captions_written :
           LET e == captions_written[k]
           IN  \E c \in DOMAIN e.captions :
                   /\ e.captions[c].start = 0
                   /\ e.window.transcript_segments[1].start < e.window.start_time
    /\ \E k \in DOMAIN captions_written :
           LET e == captions_written[k]
           IN  \/ \E c \in DOMAIN e.captions :
                      /\ e.captions[c].end = e.window.duration
                      /\ e.window.transcript_segments[1].end > e.window.end_time
               \/ Len(e.captions) < Len(e.window.transcript_segments)

\* ------------------------------------------------------------------------
\* Properties of process_video
\* ------------------------------------------------------------------------
\* the transcription of the run has no sentence
EmptyTranscript == transcription.present /\ transcription.sentences = << >>

\* C11: when the transcript has no sentences the windows are still produced
\* and ranked with final_score 0, and the run ends with a report and a CSV
\* log (exit status 0) instead of failing
C11_EmptyTranscriptCompletes ==
    /\ EmptyTranscript =>
           \A k \in DOMAIN ranked : ranked[k].scores.final_score = 0
    /\ (EmptyTranscript /\ pl_pc = "exited") =>
           /\ Len(rank_input) = Len(windows)
           /\ exit_status = 0
           /\ report.present
           /\ csv_log.present

\* rank_windows has gone past its fit step
FitStepDone == rk_pc \in {"score", "grading", "raised", "returned"}

C17_StageOrder ==
    /\ wg_pc # "idle" => pl_pc \notin {"download", "transcribe"}
    /\ rk_pc # "idle" => wg_pc = "returned" /\ rank_input = windows
    /\ (scored_windows # << >> \/ grader_calls > 0) => rk_pc # "fit"
    /\ rk_pc = "returned" =>
           /\ Len(scored_windows) = Len(rank_input)
           /\ Len(ranked) = Min(top_k, Len(rank_input))
    /\ (rn_pc # "idle" \/ render_log # << >>) => rk_pc = "returned"
    /\ report.present => Len(render_log) = Len(ranked)
    /\ csv_log.present => report.present

\* a run that went through every stage, with one render failed
C17_Witness ==
    /\ pl_pc = "exited"
    /\ csv_log.present
    /\ Len(render_log) = 2
    /\ \E k \in DOMAIN render_log : render_log[k] # "rendered"
    /\ \E k \in DOMAIN render_log : render_log[k] = "rendered"

\* C19: when the download or the transcription fails (the health check of
\* the transcription server included) process_video aborts: no window is
\* generated, scored or rendered, there is neither report nor CSV log, and
\* the command line ends with exit status 1
C19_FetchOrTranscriptionFailureAborts ==
    pl_error \in {"download"} \cup TranscriptionFailures =>
        /\ wg_pc = "idle" /\ windows = << >>
        /\ rk_pc = "idle" /\ scored_windows = << >> /\ grader_calls = 0
        /\ rn_pc = "idle" /\ render_log = << >> /\ files = {}
        /\ ~report.present
        /\ ~csv_log.present
        /\ pl_pc \in {"failed", "exited"}
        /\ pl_pc = "exited" => exit_status = 1

\* the command line has ended after an unhealthy transcription server
C19_Witness ==
    /\ pl_pc = "exited"
    /\ pl_error = "unhealthy"
    /\ exit_status = 1

C20_RecordWrittenByTaskOnly ==
    \A c \in ClipIds :
        cs_writers[c] \subseteq
            {"process_clip", "process_video_clip", "regenerate_with_captions"}

\* ------------------------------------------------------------------------
\* Properties of the renderer's files
\* ------------------------------------------------------------------------
\* C21: after a successful render_clip_with_captions the final clip file
\* exists, the temp_ file is gone and the window has its clip entry; after a
\* failure of the extract or of the caption pass the call raised and the
\* caller holds no clip entry for that window
C21_RenderedClipFinalNoTemp ==
    \A k \in 1..Len(render_log) :
        LET w == ranked[k].window
            entries == {i \in DOMAIN rendered_clips : rendered_clips[i].rank = k}
        IN  IF render_log[k] = "rendered"
            THEN /\ FinalFile(k, w) \in files
                 /\ TempFile(k, w) \notin files
                 /\ Cardinality(entries) = 1
            ELSE /\ render_log[k] \in {"extract_failed", "caption_failed"}
                 /\ entries = {}

\* a run in which the render of one window succeeded after the caption
\* pass of the window ranked before it had failed
C21_Witness ==
    \E k \in DOMAIN render_log :
        /\ k > 1
        /\ render_log[k] = "rendered"
        /\ render_log[k - 1] = "caption_failed"

\* C22: after the run was interrupted during a render, no pending stage has
\* run (no report, no CSV log, no further clip), no partial clip is
\* reported, and the temp_ clip file and the subtitle file of the
\* interrupted render are not on disk
C22_InterruptCleansTempOutputs ==
    pl_error = "interrupt" =>
        /\ rn_pc = "interrupted"
        /\ ~report.present
        /\ ~csv_log.present
        /\ Len(render_log) = render_i - 1
        /\ \A i \in DOMAIN rendered_clips : rendered_clips[i].rank < render_i
        /\ \A f \in files : f.rank = render_i => f.kind \notin {"temp", "srt"}

\* ------------------------------------------------------------------------
\* Properties of the window generator, continued
\* ------------------------------------------------------------------------
\* the nominal start times 0, stride, 2*stride, ... below D - window_duration
NominalStarts ==
    {t \in 0..MaxDuration : t % stride = 0 /\ t < video_duration - window_duration}

\* C23: when scene detection failed the cut list is empty, nothing is
\* raised, and generate_windows emits the un-snapped windows
\* [t, min(t + window_duration, D)] for t = 0, stride, 2*stride, ... while
\* t < D - window_duration
C23_DetectionFailureUnsnappedWindows ==
    (wg_pc \in {"loop", "returned"} /\ scene_cuts = << >>) =>
        /\ \A i \in DOMAIN windows :
              LET t == (i - 1) * stride
              IN  /\ t \in NominalStarts
                  /\ windows[i].start_time = t
                  /\ windows[i].end_time = Min(t + window_duration, video_duration)
        /\ wg_pc = "returned" => Len(windows) = Cardinality(NominalStarts)

\* C23 witness: a video with scene cuts whose detection failed; two windows
\* were returned
C23_Witness ==
    /\ wg_pc = "returned"
    /\ video_cuts # {}
    /\ scene_cuts = << >>
    /\ Len(windows) = 2

\* the spans end - start, shorter than window_duration, on which the
\* minimum-duration test of _snap_to_scene_boundaries is exercised
ShortSpans == {window_duration - 2 * stride, window_duration - stride}

\* the snapped span is below window_duration * 0.8
BelowMinimum(start, end, cuts) ==
    5 * (FirstWithin(cuts, end, end) - FirstWithin(cuts, start, start))
        < 4 * window_duration

ClosedAfter(k) ==
    \E j \in DOMAIN al_sentences :
        LET ws == al_sentences[j].words
        IN  ws[Len(ws)] = al_words[k]

\* the word's text ends with one or more of '.', '!', '?'
EndsWithPunctuation(word) ==
    word # << >> /\ word[Len(word)] \in SentenceEndingChars

\* C24: the loop closes a sentence after a word if and only if the word's
\* text ends with '.', '!' or '?'; punctuation inside the word only does
\* not end the sentence
C24_ClosesIffTerminalPunctuation ==
    al_pc = "loop" =>
        \A k \in 1..(al_i - 1) :
            ClosedAfter(k) <=> EndsWithPunctuation(Strip(al_words[k].word))

RECURSIVE WordsOf(_)
\* the words of the sentences, in order
WordsOf(ss) == IF ss = << >> THEN << >> ELSE Head(ss).words \o WordsOf(Tail(ss))

\* C25: the sentences partition the words handled so far, in input order;
\* no sentence is empty, each starts with its first word and ends with its
\* last word, and after the return the trailing words are the last sentence
C25_SentencesPartitionWords ==
    /\ al_pc = "loop" =>
          WordsOf(al_sentences) \o al_current.words = SubSeq(al_words, 1, al_i - 1)
    /\ al_pc = "returned" => WordsOf(al_sentences) = al_words
    /\ \A j \in DOMAIN al_sentences :
          LET s == al_sentences[j]
          IN  /\ s.words # << >>
              /\ s.start = s.words[1].start
              /\ s.end = s.words[Len(s.words)].end
              /\ Len(s.text) = Len(s.words)

\* C25 witness: three words, the first ends a sentence and the other two,
\* without punctuation, were flushed as the final sentence
C25_Witness ==
    /\ al_pc = "returned"
    /\ Len(al_words) = 3
    /\ Len(al_sentences) = 2
    /\ Len(al_sentences[1].words) = 1
    /\ Len(al_sentences[2].words) = 2
    /\ ~SentenceEndingFound(al_words[3].word)

\* ------------------------------------------------------------------------
\* Properties of the web API, continued
\* ------------------------------------------------------------------------
\* the statuses of a clip that is processed without failure, in order
StatusOrder ==
    << "processing", "downloading", "processing_video", "transcribing",
       "finalizing", "completed" >>

\* a step changes the status of a clip nobody sent update-captions for only
\* to the next status of StatusOrder, or to "error"
StatusStepInOrder ==
    \A c \in ClipIds :
        LET old == clips_storage[c].status
            new == clips_storage'[c].status
        IN  ("update_captions" \notin cs_writers'[c] /\ new # old) =>
                \/ old = "none" /\ new = "processing"
                \/ old # "completed" /\ new = "error"
                \/ \E i \in 1..(Len(StatusOrder) - 1) :
                      old = StatusOrder[i] /\ new = StatusOrder[i + 1]

\* C30: every clip accepted by process-clip eventually has status
\* "completed" or "error"; without an update-captions request its status
\* passes through processing, downloading, processing_video, transcribing,
\* finalizing in that order; a completed record has a video_path
C30_ClipEventuallySettles ==
    /\ [][StatusStepInOrder]_vars
    /\ [](\A c \in ClipIds :
            clips_storage[c].status = "completed" => clips_storage[c].video_path # "none")
    /\ \A c \in ClipIds :
          clips_storage[c].exists ~> clips_storage[c].status \in {"completed", "error"}

\* C30 witness: one clip completed and one failed, neither with an
\* update-captions request
C30_Witness ==
    /\ clips_storage["c1"].status = "completed"
    /\ clips_storage["c1"].video_path = "final"
    /\ clips_storage["c2"].status = "error"
    /\ \A c \in ClipIds : "update_captions" \notin cs_writers[c]

\* C27: a record is in status "completed" only when no background task of
\* its clip is running, and an upload, accepted only in status "completed",
\* never runs while a background task of the clip is still to be done
C27_CompletedMeansNoTaskRunning ==
    \A c \in ClipIds :
        /\ clips_storage[c].status = "completed" =>
              ~(cs_running.clip = c /\ cs_running.kind \in {"process", "regenerate"})
        /\ (cs_running.kind = "upload" /\ cs_running.clip = c) =>
              \A t \in cs_queue : t.clip # c

\* C28: every run of regenerate_with_captions for an update-captions
\* request made on a completed clip took the cropped video of the clip as
\* its input and ended with status "completed", unless ffmpeg failed on
\* the existing input
C28_RegenerateRepeatable ==
    \A c \in ClipIds :
        \A i \in DOMAIN cs_regen[c] :
            cs_regen[c][i].from_completed =>
                /\ cs_regen[c][i].input = "final"
                /\ cs_regen[c][i].outcome \in {"completed", "ffmpeg_failed"}

\* C29: upload_video returns a result with a video_id or raises, it never
\* returns the response of an upload without 'id'; and its loop ends after
\* at most 4 failed next_chunk attempts
C29_UploadReturnsIdOrRaises ==
    /\ \A c \in ClipIds : clips_storage[c].youtube_upload # "response"
    /\ cs_running.retry <= 3

====
